---- MODULE Spec2Model ----
(***************************************************************************)
(* Model of recache's synchronisation engine, src/lib/cache.js.            *)
(*                                                                         *)
(* One Cache instance mirrors a small file-system tree.  Every async       *)
(* function of the class is a frame on the stack of the task (promise      *)
(* chain) that called it; a task suspends at lstat / readdir / readFile /  *)
(* setImmediate and is resumed by the action that completes the call.      *)
(* Synchronous code (emit, unlinkElement, destroy, stop, addWatcher) is an *)
(* operator on the record of the instance's fields.                        *)
(***************************************************************************)
EXTENDS Integers, Sequences, FiniteSets, TLC

\* ------------------------------------------------------------------ bounds
MaxFsOps == 2
MaxRemovals == 3
MaxDestroy == 2
MaxTasks == 3
MaxWrites == 2
MaxPieces == 3
MaxApply == 3
MaxLinks == 2

\* ------------------------------------------------------- location namespace
rootSymbol == <<>>
NameOrder == <<"a", "c">>
Paths == {<<>>, <<"a">>, <<"a", "c">>}

join(location, child) == Append(location, child)
Parent(p) == SubSeq(p, 1, Len(p) - 1)
IsPrefix(p, q) == Len(p) <= Len(q) /\ SubSeq(q, 1, Len(p)) = p

\* ------------------------------------------------------------- file system
Kinds == {"none", "file", "dir", "other"}
NoFile == [kind |-> "none", mtime |-> 0, bytes |-> 0]

\* a tree: an existing non-root path has a directory as its parent
ValidFs(f) ==
    \A p \in Paths : (p # rootSymbol /\ f[p].kind # "none") => f[Parent(p)].kind = "dir"

\* readdir: the names of the existing children, in directory order
Listing(f, p) ==
    SelectSeq(NameOrder, LAMBDA n : join(p, n) \in Paths /\ f[join(p, n)].kind # "none")

\* ---------------------------------------------------------------- elements
NullContent == [k |-> "null", list |-> <<>>, buf |-> 0]
ListContent(l) == [k |-> "list", list |-> l, buf |-> 0]
BufContent(b) == [k |-> "buf", list |-> <<>>, buf |-> b]
isArray(content) == content.k = "list"

NoElem == [type |-> "none", content |-> NullContent, mtime |-> 0, gen |-> 0]

\* ------------------------------------------------------------------ events
Ev(name, loc, got, has, el, prev, ok) ==
    [ev |-> name, loc |-> loc, got |-> got, has |-> has, el |-> el, prev |-> prev, ok |-> ok]

\* what a handler finds when it inspects the whole instance: every stored
\* element but the root has a stored parent directory that lists its name,
\* and every key of the map of watchers is the root or a stored directory
SelfConsistent(c) ==
    /\ \A p \in Paths \ {rootSymbol} :
           c.container[p].type # "none" =>
               LET parent == c.container[Parent(p)] IN
               /\ parent.type = "dir" /\ isArray(parent.content)
               /\ \E k \in 1..Len(parent.content.list) : parent.content.list[k] = p[Len(p)]
    /\ \A p \in c.watchers : p = rootSymbol \/ c.container[p].type = "dir"

\* EventEmitter.emit: the handlers run synchronously.  `emitted` lists what the
\* current step has emitted, each event with what a handler sees at that moment
\* (got: get(loc) is an element, has: has(loc), ok: the instance is
\* self-consistent); `count` counts the events of the instance's life
Counted == {"ready", "destroy", "error"}

emit(c, name, loc, el, prev) ==
    [c EXCEPT !.emitted = Append(@, Ev(name, loc, c.container[loc].type # "none",
                                       ~c.destroyed /\ c.container[loc].type # "none", el, prev,
                                       SelfConsistent(c))),
              !.count = IF name \in Counted THEN [@ EXCEPT ![name] = @ + 1] ELSE @]

\* the positions of the events of one name emitted by the step just taken
Emitted(c, name) == {i \in 1..Len(c.emitted) : c.emitted[i].ev = name}
EmittedAt(c, name, loc) == {i \in Emitted(c, name) : c.emitted[i].loc = loc}

\* a new step starts with nothing emitted
Tick(c) == [c EXCEPT !.emitted = <<>>]

\* ------------------------------------------------------ location strings
\* a location given to get and has is a string, here the sequence of its
\* characters; the locations of the store are kept above as paths, <<>> for
\* '<root>' and <<"a", "c">> for '<root>/a/c'
rootString == <<"<", "r", "o", "o", "t", ">">>
solidus == <<"/">>

startsWith(str, prefix) == Len(prefix) <= Len(str) /\ SubSeq(str, 1, Len(prefix)) = prefix

\* normalizeLocation prefixing also a location that starts with '<root>'
normalizeLocation_prefixAll(location) ==
    IF Len(location) = 0 \/ location = solidus THEN rootString
    ELSE IF startsWith(location, solidus) THEN rootString \o location
    ELSE rootString \o solidus \o location

normalizeLocation(location) ==
    IF Len(location) = 0 \/ location = solidus THEN rootString
    ELSE IF startsWith(location, rootString) THEN location
    ELSE IF startsWith(location, solidus) THEN rootString \o location
    ELSE rootString \o solidus \o location

\* the strings made of at most MaxPieces of these pieces
Pieces == {rootString, solidus, <<"p">>, <<"<">>, <<"<", "r", "o", "o", "t">>, <<">">>}

RECURSIVE Strings(_)
Strings(n) ==
    IF n = 0 THEN {<<>>}
    ELSE Strings(n - 1) \cup {str \o piece : str \in Strings(n - 1), piece \in Pieces}

\* no string has been normalized
NoCall == [arg |-> <<>>, out |-> <<>>, n |-> 0]

\* --------------------------------------------------- synchronous operations
get(c, location) == c.container[location]

has(c, location) == ~c.destroyed /\ c.container[location].type # "none"

list(c) == IF c.destroyed THEN {} ELSE {p \in Paths : c.container[p].type # "none"}

\* watcher.close(): a closed handle delivers nothing any more
close(c, location) ==
    [c EXCEPT !.handles[location] = @ - 1,
              !.pendW = IF c.handles[location] = 1 THEN @ \ {location} ELSE @]

RECURSIVE closeAll(_, _)
closeAll(c, ws) ==
    IF ws = {} THEN c
    ELSE LET w == CHOOSE x \in ws : TRUE IN closeAll(close(c, w), ws \ {w})

\* unwatchFile(path, listener)
unwatchFile(c) ==
    [c EXCEPT !.fwCur = FALSE, !.pendL = IF c.fwOld = 0 THEN FALSE ELSE @]

stop(c) ==
    IF ~c.destroyed /\ c.watching
    THEN LET c1 == [c EXCEPT !.watching = FALSE]
             c2 == IF c1.listener THEN unwatchFile(c1) ELSE c1
         IN  [closeAll(c2, c2.watchers) EXCEPT !.watchers = {}]
    ELSE c

\* destroy() without the test of _destroyed
destroy_unguarded(c) ==
    LET c1 == [c EXCEPT !.destroyed = TRUE,
                        !.changed = FALSE,
                        !.listener = FALSE,
                        !.fwOld = IF c.fwCur THEN @ + 1 ELSE @,
                        !.fwCur = FALSE,
                        !.ready = FALSE,
                        !.updating = FALSE]
        c2 == stop(c1)
    IN  [c2 EXCEPT !.container = [p \in Paths |-> NoElem],
                   !.immDestroy = @ + 1]

destroy(c) ==
    IF ~c.destroyed
    THEN LET c1 == [c EXCEPT !.destroyed = TRUE,
                             !.changed = FALSE,
                             !.listener = FALSE,
                             !.fwOld = IF c.fwCur THEN @ + 1 ELSE @,
                             !.fwCur = FALSE,
                             !.ready = FALSE,
                             !.updating = FALSE]
             c2 == stop(c1)
         IN  [c2 EXCEPT !.container = [p \in Paths |-> NoElem],
                        !.immDestroy = @ + 1]
    ELSE c

\* addWatcher without the test of _watching
addWatcher_always(c, location) ==
    LET c1 == [c EXCEPT !.handles[location] = @ + 1,
                        !.watchers = @ \cup {location}]
        c2 == IF location = rootSymbol
              THEN [c1 EXCEPT !.listener = TRUE,
                              !.fwOld = IF c1.fwCur THEN @ + 1 ELSE @,
                              !.fwCur = TRUE]
              ELSE c1
    IN  emit(c2, "watch", location, 0, 0)

addWatcher(c, location) ==
    IF c.watching
    THEN LET c1 == [c EXCEPT !.handles[location] = @ + 1,
                             !.watchers = @ \cup {location}]
             c2 == IF location = rootSymbol
                   THEN [c1 EXCEPT !.listener = TRUE,
                                   !.fwOld = IF c1.fwCur THEN @ + 1 ELSE @,
                                   !.fwCur = TRUE]
                   ELSE c1
         IN  emit(c2, "watch", location, 0, 0)
    ELSE c

RECURSIVE unlinkElement(_, _)
RECURSIVE unlinkChildren(_, _, _, _)

unlinkChildren(c, location, content, i) ==
    IF i > Len(content) THEN c
    ELSE unlinkChildren(unlinkElement(c, join(location, content[i])), location, content, i + 1)

\* unlinkElement emitting the unlink event before it deletes the element
unlinkElement_emitFirst(c, location) ==
    LET element == get(c, location) IN
    IF element.type = "none" THEN c
    ELSE LET c1 == IF element.type = "dir" /\ isArray(element.content)
                   THEN LET cw == IF location \in c.watchers
                                  THEN [close(c, location) EXCEPT !.watchers = @ \ {location}]
                                  ELSE c
                        IN  unlinkChildren(cw, location, element.content.list, 1)
                   ELSE c
             prev == c1.container[location].gen
             c2 == emit(c1, "unlink", location, element.gen, prev)
             c3 == [c2 EXCEPT !.container[location] = NoElem, !.changed = TRUE]
         IN  IF location = rootSymbol THEN destroy(c3) ELSE c3

unlinkElement(c, location) ==
    LET element == get(c, location) IN
    IF element.type = "none" THEN c
    ELSE LET c1 == IF element.type = "dir" /\ isArray(element.content)
                   THEN LET cw == IF location \in c.watchers
                                  THEN [close(c, location) EXCEPT !.watchers = @ \ {location}]
                                  ELSE c
                        IN  unlinkChildren(cw, location, element.content.list, 1)
                   ELSE c
             prev == c1.container[location].gen
             c2 == [c1 EXCEPT !.container[location] = NoElem, !.changed = TRUE]
             c3 == emit(c2, "unlink", location, element.gen, prev)
         IN  IF location = rootSymbol THEN destroy(c3) ELSE c3

\* a filter that accepts every path
isPathAccepted_all(c, location) == TRUE

isPathAccepted(c, location) == location \notin c.filter

\* emitElementError for which every error is fatal
emitElementError_fatal(c, location) ==
    IF ~c.destroyed
    THEN destroy(unlinkElement(emit(c, "error", location, 0, 0), location))
    ELSE c

\* emitElementError that reports the error and leaves the element
emitElementError_errorOnly(c, location) ==
    IF ~c.destroyed
    THEN emit(c, "error", location, 0, 0)
    ELSE c

\* emitElementError without the test of _destroyed
emitElementError_always(c, location) ==
    unlinkElement(emit(c, "error", location, 0, 0), location)

\* body of the setImmediate callback of emitElementError
emitElementError(c, location) ==
    IF ~c.destroyed
    THEN unlinkElement(emit(c, "error", location, 0, 0), location)
    ELSE c

\* ------------------------------------------------------------------- tasks
\* a frame is the continuation of one async function at its pending await
Frame(pc, loc) ==
    [pc |-> pc, loc |-> loc, list |-> <<>>, idx |-> 0, mt |-> 0, gen |-> 0,
     typ |-> "none", old |-> NullContent, flav |-> "void"]

Task(kind, loc, st, stack) ==
    [kind |-> kind, loc |-> loc, st |-> st, stack |-> stack, ret |-> NullContent,
     fsch |-> FALSE, did |-> FALSE]

\* the task has created, changed or removed an element
Did(t) == [t EXCEPT !.did = TRUE]

Push(t, f) == [t EXCEPT !.stack = <<f>> \o @]
Pop(t) == [t EXCEPT !.stack = Tail(@)]
Top(t) == Head(t.stack)
SetTop(t, f) == [t EXCEPT !.stack = <<f>> \o Tail(@)]

\* the callee has finished: its caller resumes in the same tick
Return(t, value) == [Pop(t) EXCEPT !.st = "ret", !.ret = value]

\* await lstat(path) in updateLocation
CallUpdateLocation(t, location) == [Push(t, Frame("lstat", location)) EXCEPT !.st = "io"]

\* await emitElementError(...) in a catch block
CallEmitElementError(t, flav) ==
    [SetTop(t, [Frame("imm", Top(t).loc) EXCEPT !.flav = flav]) EXCEPT !.st = "io"]

\* getContent reading a file whatever the store option says
getContent_alwaysRead(c, t, type, location) ==
    IF type = "dir"
    THEN [Push(t, Frame("readdir", location)) EXCEPT !.st = "io"]
    ELSE [Push(t, Frame("readfile", location)) EXCEPT !.st = "io"]

\* getContent dispatches on the element type (contentBehaviors)
getContent(c, t, type, location) ==
    IF type = "dir"
    THEN [Push(t, Frame("readdir", location)) EXCEPT !.st = "io"]
    ELSE IF c.store
         THEN [Push(t, Frame("readfile", location)) EXCEPT !.st = "io"]
         ELSE [t EXCEPT !.st = "ret", !.ret = NullContent]

\* iterateDirectory(cache, location, content, index): the top frame is
\* replaced by the iteration, which awaits the child at position i
iterateDirectory(t, location, content, i, flav) ==
    IF i <= Len(content)
    THEN CallUpdateLocation(
             SetTop(t, [Frame("iter", location) EXCEPT !.list = content, !.idx = i, !.flav = flav]),
             join(location, content[i]))
    ELSE Return(t, IF flav = "content" THEN ListContent(content) ELSE NullContent)

\* updateLocation without the comparison of the modification times
updateLocationStat_noTimeTest(c, t, stats) ==
    LET location == Top(t).loc
        element == get(c, location)
    IN  IF stats.kind = "none" \/ c.destroyed
        THEN CallEmitElementError(t, "void")
        ELSE IF stats.kind \in {"dir", "file"}
        THEN IF element.type # "none"
             THEN getContent(c,
                      SetTop(t, [Frame("update", location) EXCEPT
                                     !.gen = element.gen, !.old = element.content,
                                     !.typ = element.type, !.mt = stats.mtime]),
                      element.type, location)
             ELSE IF isPathAccepted(c, location)
                  THEN getContent(c,
                           SetTop(t, [Frame("create", location) EXCEPT
                                          !.typ = stats.kind, !.mt = stats.mtime]),
                           stats.kind, location)
                  ELSE Return(t, NullContent)
        ELSE Return(t, NullContent)

\* updateLocation after lstat has answered with stats
updateLocationStat(c, t, stats) ==
    LET location == Top(t).loc
        element == get(c, location)
    IN  IF stats.kind = "none" \/ c.destroyed
        THEN CallEmitElementError(t, "void")
        ELSE IF stats.kind \in {"dir", "file"}
        THEN IF element.type # "none"
             THEN IF element.mtime # stats.mtime
                  THEN getContent(c,
                           SetTop(t, [Frame("update", location) EXCEPT
                                          !.gen = element.gen, !.old = element.content,
                                          !.typ = element.type, !.mt = stats.mtime]),
                           element.type, location)
                  ELSE IF isArray(element.content)
                       THEN iterateDirectory(t, location, element.content.list, 1, "void")
                       ELSE Return(t, NullContent)
             ELSE IF isPathAccepted(c, location)
                  THEN getContent(c,
                           SetTop(t, [Frame("create", location) EXCEPT
                                          !.typ = stats.kind, !.mt = stats.mtime]),
                           stats.kind, location)
                  ELSE Return(t, NullContent)
        ELSE Return(t, NullContent)

\* getDirectoryContent returning the listing without awaiting the children
getDirectoryContent_noIterate(c, t, f) ==
    LET location == Top(t).loc IN
    IF f[location].kind # "dir" \/ c.destroyed
    THEN CallEmitElementError(t, "null")
    ELSE Return(t, ListContent(Listing(f, location)))

\* getDirectoryContent after readdir has answered
getDirectoryContent(c, t, f) ==
    LET location == Top(t).loc IN
    IF f[location].kind # "dir" \/ c.destroyed
    THEN CallEmitElementError(t, "null")
    ELSE iterateDirectory(t, location, Listing(f, location), 1, "content")

\* getFileContent after readFile has answered
getFileContent(c, t, f) ==
    LET location == Top(t).loc IN
    IF f[location].kind # "file" \/ c.destroyed
    THEN CallEmitElementError(t, "null")
    ELSE Return(t, BufContent(f[location].bytes))

\* watch(path) throws when the path does not exist
watchThrows(c, f, location) == c.watching /\ f[location].kind = "none"

\* createElement that announces no element
createElement_silent(c, f, fr, content) ==
    LET element == [type |-> fr.typ, content |-> content, mtime |-> fr.mt, gen |-> c.nextGen]
        c1 == [c EXCEPT !.container[fr.loc] = element, !.nextGen = @ + 1]
        c2 == IF c1.ready THEN [c1 EXCEPT !.changed = TRUE] ELSE c1
    IN  IF (fr.typ = "dir" \/ fr.loc = rootSymbol) /\ ~watchThrows(c2, f, fr.loc)
        THEN addWatcher(c2, fr.loc)
        ELSE c2

\* createElement after getContent has returned
createElement(c, f, fr, content) ==
    LET element == [type |-> fr.typ, content |-> content, mtime |-> fr.mt, gen |-> c.nextGen]
        c1 == [c EXCEPT !.container[fr.loc] = element, !.nextGen = @ + 1]
        c2 == IF c1.ready
              THEN emit([c1 EXCEPT !.changed = TRUE], fr.typ, fr.loc, element.gen, element.gen)
              ELSE c1
    IN  IF (fr.typ = "dir" \/ fr.loc = rootSymbol) /\ ~watchThrows(c2, f, fr.loc)
        THEN addWatcher(c2, fr.loc)
        ELSE c2

RECURSIVE unlinkRemoved(_, _, _, _, _)
unlinkRemoved(c, location, content, newContent, i) ==
    IF i > Len(content) THEN c
    ELSE unlinkRemoved(
             IF \E j \in 1..Len(newContent) : newContent[j] = content[i]
             THEN c
             ELSE unlinkElement(c, join(location, content[i])),
             location, content, newContent, i + 1)

\* updateElement assigning the new stats and leaving the content as it was
updateElement_keepContent(c, fr, newContent) ==
    LET held == c.container[fr.loc].type # "none" /\ c.container[fr.loc].gen = fr.gen
        c1 == IF held THEN [c EXCEPT !.container[fr.loc].mtime = fr.mt] ELSE c
        c2 == [c1 EXCEPT !.changed = TRUE]
        c3 == IF fr.typ = "dir" /\ isArray(fr.old) /\ isArray(newContent)
              THEN unlinkRemoved(c2, fr.loc, fr.old.list, newContent.list, 1)
              ELSE c2
    IN  emit(c3, "change", fr.loc, fr.gen, c3.container[fr.loc].gen)

\* updateElement after getContent has returned; the element object is the one
\* read before the await, which the container may no longer hold
updateElement(c, fr, newContent) ==
    LET held == c.container[fr.loc].type # "none" /\ c.container[fr.loc].gen = fr.gen
        c1 == IF held
              THEN [c EXCEPT !.container[fr.loc].content = newContent,
                             !.container[fr.loc].mtime = fr.mt]
              ELSE c
        c2 == [c1 EXCEPT !.changed = TRUE]
        c3 == IF fr.typ = "dir" /\ isArray(fr.old) /\ isArray(newContent)
              THEN unlinkRemoved(c2, fr.loc, fr.old.list, newContent.list, 1)
              ELSE c2
    IN  emit(c3, "change", fr.loc, fr.gen, c3.container[fr.loc].gen)

\* whenReleased: the test made by the promise executor
Released(c) == ~(~c.ready \/ c.updating)

\* emit(releaseEvent) that reaches no listener
release_unheard(c, ts) == ts

\* emit(releaseEvent): every parked once-listener runs whenReleased again
release(c, ts) ==
    [i \in 1..Len(ts) |->
        IF ts[i].st = "parked" /\ Released(c) THEN [ts[i] EXCEPT !.st = "admit"] ELSE ts[i]]

\* listenChange after whenReleased has resolved, up to await updateLocation
listenChangeStart(c) == [c EXCEPT !.changed = FALSE, !.updating = TRUE]

\* listenChange after updateLocation has returned, up to emit(releaseEvent)
listenChangeEnd(c) ==
    LET c1 == [c EXCEPT !.updating = FALSE]
    IN  IF c1.changed THEN emit(c1, "update", rootSymbol, 0, 0) ELSE c1

\* prepareCache without the test of has(rootSymbol)
prepareCacheEnd_blind(c) ==
    IF ~c.destroyed
    THEN emit([c EXCEPT !.ready = TRUE], "ready", rootSymbol, 0, 0)
    ELSE c

\* prepareCache that leaves a cache without a root element as it is
prepareCacheEnd_noDestroy(c) ==
    IF has(c, rootSymbol) /\ ~c.destroyed
    THEN emit([c EXCEPT !.ready = TRUE], "ready", rootSymbol, 0, 0)
    ELSE c

\* prepareCache without the test of _destroyed
prepareCacheEnd_unchecked(c) ==
    LET c1 == IF ~has(c, rootSymbol) THEN destroy(c) ELSE c
    IN  emit([c1 EXCEPT !.ready = TRUE], "ready", rootSymbol, 0, 0)

\* prepareCache after updateLocation has returned, up to emit(releaseEvent)
prepareCacheEnd(c) ==
    LET c1 == IF ~has(c, rootSymbol) THEN destroy(c) ELSE c
    IN  IF ~c1.destroyed
        THEN emit([c1 EXCEPT !.ready = TRUE], "ready", rootSymbol, 0, 0)
        ELSE c1

\* cache.emit(releaseEvent), logged with the pass that fires it
emitRelease(c, t, now) == emit(c, "release", t.loc, now, IF t.fsch THEN 1 ELSE 0)

Remove(ts, i) == SubSeq(ts, 1, i - 1) \o SubSeq(ts, i + 1, Len(ts))
Replace(ts, i, t) == [ts EXCEPT ![i] = t]

\* ------------------------------------------------------------------- state
VARIABLES fs, clock, cache, tasks, env, norm

vars == <<fs, clock, cache, tasks, env, norm>>

\* the tick in progress: a task that is running, not suspended
Running(ts) == \E i \in 1..Len(ts) : ts[i].st \in {"ret", "admit"}
Current(ts) == CHOOSE i \in 1..Len(ts) :
                   /\ ts[i].st \in {"ret", "admit"}
                   /\ \A j \in 1..(i - 1) : ts[j].st \notin {"ret", "admit"}
Idle == ~Running(tasks)

File0(kind) == [kind |-> kind, mtime |-> 0, bytes |-> 0]

\* the trees the cache is constructed on
FsTree(r, a, c) == (<<>> :> File0(r)) @@ (<<"a">> :> File0(a)) @@ (<<"a", "c">> :> File0(c))

InitFs ==
    {FsTree("none", "none", "none"), FsTree("file", "none", "none"),
     FsTree("other", "none", "none"), FsTree("dir", "none", "none"),
     FsTree("dir", "file", "none"), FsTree("dir", "dir", "none"),
     FsTree("dir", "dir", "file")}

\* what the world and the caller may do to one instance
Budget(fsops, werr, nDestroy, nStop, nStart) ==
    [fsops |-> fsops, werr |-> werr, nDestroy |-> nDestroy, nStop |-> nStop, nStart |-> nStart]

\* new Cache(path, options): the constructor has called start(), which has
\* called prepareCache, which is suspended at the lstat of the root
InitCache(store, filter) ==
    [changed |-> FALSE, container |-> [p \in Paths |-> NoElem], store |-> store,
     destroyed |-> FALSE, filter |-> filter, listener |-> FALSE, ready |-> FALSE,
     updating |-> FALSE, watchers |-> {}, watching |-> TRUE,
     handles |-> [p \in Paths |-> 0], pendW |-> {}, fwCur |-> FALSE, fwOld |-> 0,
     pendL |-> FALSE, immDestroy |-> 0, nextGen |-> 1, emitted |-> <<>>,
     count |-> [n \in Counted |-> 0]]

prepareCache == CallUpdateLocation(Task("prep", rootSymbol, "io", <<Frame("prep", rootSymbol)>>), rootSymbol)

\* the world acts alone (file changes, a watcher error) ...
InitWorld ==
    /\ fs \in {FsTree("dir", "dir", "file"), FsTree("dir", "file", "none")}
    /\ cache = InitCache(FALSE, {})
    /\ env = Budget(MaxFsOps, 1, 0, 0, 0)

\* ... or the caller acts, on every kind of root and with every option
InitCaller ==
    /\ fs \in InitFs
    /\ \E store \in BOOLEAN, filter \in {{}, {<<"a">>}, {<<>>}} : cache = InitCache(store, filter)
    /\ env = Budget(0, 0, MaxDestroy, 1, 1)

Init ==
    /\ clock = 0
    /\ norm = NoCall
    /\ tasks = <<prepareCache>>
    /\ (InitWorld \/ InitCaller)

\* --------------------------------------------------- file-system operations
Lstat(i) ==
    /\ Idle
    /\ tasks[i].st = "io" /\ Top(tasks[i]).pc = "lstat"
    /\ tasks' = Replace(tasks, i, updateLocationStat(cache, tasks[i], fs[Top(tasks[i]).loc]))
    /\ cache' = Tick(cache)
    /\ UNCHANGED <<fs, clock, env, norm>>

Readdir(i) ==
    /\ Idle
    /\ tasks[i].st = "io" /\ Top(tasks[i]).pc = "readdir"
    /\ tasks' = Replace(tasks, i, getDirectoryContent(cache, tasks[i], fs))
    /\ cache' = Tick(cache)
    /\ UNCHANGED <<fs, clock, env, norm>>

ReadFile(i) ==
    /\ Idle
    /\ tasks[i].st = "io" /\ Top(tasks[i]).pc = "readfile"
    /\ tasks' = Replace(tasks, i, getFileContent(cache, tasks[i], fs))
    /\ cache' = Tick(cache)
    /\ UNCHANGED <<fs, clock, env, norm>>

\* the setImmediate callback of emitElementError, then resolve()
Immediate(i) ==
    /\ Idle
    /\ tasks[i].st = "io" /\ Top(tasks[i]).pc = "imm"
    /\ LET c == emitElementError(Tick(cache), Top(tasks[i]).loc)
       IN  /\ cache' = c
           /\ tasks' = IF Len(tasks[i].stack) = 1
                       THEN Remove(tasks, i)
                       ELSE Replace(tasks, i,
                                Return(IF Emitted(c, "unlink") # {} THEN Did(tasks[i]) ELSE tasks[i],
                                       NullContent))
    /\ UNCHANGED <<fs, clock, env, norm>>

\* ------------------------------------------------- continuations of a tick
RetIter ==
    /\ Running(tasks)
    /\ LET i == Current(tasks)
           t == tasks[i]
       IN  /\ t.st = "ret" /\ Top(t).pc = "iter"
           /\ tasks' = Replace(tasks, i,
                  iterateDirectory(t, Top(t).loc, Top(t).list, Top(t).idx + 1, Top(t).flav))
    /\ cache' = Tick(cache)
    /\ UNCHANGED <<fs, clock, env, norm>>

\* createElement resumes; a throw of watch() rejects it into the catch block
\* of the updateLocation that called it
RetCreate ==
    /\ Running(tasks)
    /\ LET i == Current(tasks)
           t == tasks[i]
           c == createElement(Tick(cache), fs, Top(t), t.ret)
       IN  /\ t.st = "ret" /\ Top(t).pc = "create"
           /\ cache' = c
           /\ tasks' = Replace(tasks, i,
                  IF (Top(t).typ = "dir" \/ Top(t).loc = rootSymbol) /\ watchThrows(c, fs, Top(t).loc)
                  THEN CallEmitElementError(Did(t), "void")
                  ELSE Return(Did(t), NullContent))
    /\ UNCHANGED <<fs, clock, env, norm>>

RetUpdate ==
    /\ Running(tasks)
    /\ LET i == Current(tasks)
           t == tasks[i]
       IN  /\ t.st = "ret" /\ Top(t).pc = "update"
           /\ cache' = updateElement(Tick(cache), Top(t), t.ret)
           /\ tasks' = Replace(tasks, i, Return(Did(t), NullContent))
    /\ UNCHANGED <<fs, clock, env, norm>>

RetPrepare ==
    /\ Running(tasks)
    /\ LET i == Current(tasks)
           t == tasks[i]
           c == prepareCacheEnd(Tick(cache))
       IN  /\ t.st = "ret" /\ Top(t).pc = "prep"
           /\ cache' = IF c.destroyed THEN c ELSE emitRelease(c, t, clock)
           /\ tasks' = IF c.destroyed THEN Remove(tasks, i) ELSE release(c, Remove(tasks, i))
    /\ UNCHANGED <<fs, clock, env, norm>>

RetChange ==
    /\ Running(tasks)
    /\ LET i == Current(tasks)
           t == tasks[i]
           c == listenChangeEnd(Tick(cache))
       IN  /\ t.st = "ret" /\ Top(t).pc = "change"
           /\ cache' = emitRelease(c, t, clock)
           /\ tasks' = release(c, Remove(tasks, i))
    /\ UNCHANGED <<fs, clock, env, norm>>

\* listenChange resumes after await whenReleased
Admit ==
    /\ Running(tasks)
    /\ LET i == Current(tasks)
           t == tasks[i]
       IN  /\ t.st = "admit"
           /\ IF ~cache.destroyed
              THEN /\ cache' = listenChangeStart(Tick(cache))
                   /\ tasks' = Replace(tasks, i, CallUpdateLocation(t, t.loc))
              ELSE /\ cache' = Tick(cache)
                   /\ tasks' = Remove(tasks, i)
    /\ UNCHANGED <<fs, clock, env, norm>>

\* ---------------------------------------------------------- native events
\* listenChange(cache, location), called by a watcher or by the root listener
listenChange(ts, c, location) ==
    Append(ts, Task("change", location,
                    IF Released(c) THEN "admit" ELSE "parked",
                    <<Frame("change", location)>>))

\* watcher.on('change')
WatcherChange(location) ==
    /\ Idle
    /\ location \in cache.pendW
    /\ Len(tasks) < MaxTasks
    /\ cache' = [Tick(cache) EXCEPT !.pendW = @ \ {location}]
    /\ tasks' = listenChange(tasks, cache, location)
    /\ UNCHANGED <<fs, clock, env, norm>>

\* the listener given to watchFile
RootListener ==
    /\ Idle
    /\ cache.pendL
    /\ Len(tasks) < MaxTasks
    /\ cache' = [Tick(cache) EXCEPT !.pendL = FALSE]
    /\ tasks' = listenChange(tasks, cache, rootSymbol)
    /\ UNCHANGED <<fs, clock, env, norm>>

\* watcher.on('error'), raised for a watched path that is gone:
\* emitElementError waits for its setImmediate
WatcherError(location) ==
    /\ Idle
    /\ env.werr > 0
    /\ cache.handles[location] > 0
    /\ fs[location].kind = "none"
    /\ env' = [env EXCEPT !.werr = @ - 1]
    /\ tasks' = Append(tasks, Task("werr", location, "io",
                                   <<[Frame("imm", location) EXCEPT !.flav = "void"]>>))
    /\ cache' = Tick(cache)
    /\ UNCHANGED <<fs, clock, norm>>

\* the setImmediate callback of destroy()
EmitDestroy ==
    /\ Idle
    /\ cache.immDestroy > 0
    /\ cache' = [emit(Tick(cache), "destroy", rootSymbol, 0, 0) EXCEPT !.immDestroy = @ - 1]
    /\ UNCHANGED <<fs, clock, tasks, env, norm>>

\* ------------------------------------------------------------- public calls
Destroy ==
    /\ Idle
    /\ env.nDestroy > 0
    /\ env' = [env EXCEPT !.nDestroy = @ - 1]
    /\ cache' = destroy(Tick(cache))
    /\ UNCHANGED <<fs, clock, tasks, norm>>

Stop ==
    /\ Idle
    /\ env.nStop > 0
    /\ env' = [env EXCEPT !.nStop = @ - 1]
    /\ cache' = stop(Tick(cache))
    /\ UNCHANGED <<fs, clock, tasks, norm>>

\* start(callback)
Start ==
    /\ Idle
    /\ env.nStart > 0
    /\ env' = [env EXCEPT !.nStart = @ - 1]
    /\ IF ~cache.destroyed /\ ~cache.watching
       THEN /\ cache' = [Tick(cache) EXCEPT !.watching = TRUE]
            /\ tasks' = Append(tasks, prepareCache)
       ELSE /\ cache' = Tick(cache)
            /\ tasks' = tasks
    /\ UNCHANGED <<fs, clock, norm>>

\* ------------------------------------------------- the world changes files
Subtree(p) == {q \in Paths : IsPrefix(p, q)}

\* a pass in progress has seen the tree change under it
InPass(t) == t.kind \in {"prep", "change"} /\ t.st \in {"io", "ret"}
MarkChanged(ts) ==
    [i \in 1..Len(ts) |-> IF InPass(ts[i]) THEN [ts[i] EXCEPT !.fsch = TRUE] ELSE ts[i]]

Touch(f, p, t) == IF p = rootSymbol THEN f ELSE [f EXCEPT ![Parent(p)].mtime = t]

\* a change of path p is reported to the open watcher of its directory, to the
\* open watchers of the paths changed, and to the listener polling the root
notify(c, p, changed) ==
    [c EXCEPT !.pendW = @ \cup {l \in Paths : c.handles[l] > 0 /\
                                    (l \in changed \/ (p # rootSymbol /\ l = Parent(p)))},
              !.pendL = @ \/ ((c.fwCur \/ c.fwOld > 0) /\ Len(p) <= 1)]

FsCreate(p, kind) ==
    /\ Idle
    /\ env.fsops > 0
    /\ fs[p].kind = "none"
    /\ p # rootSymbol => fs[Parent(p)].kind = "dir"
    /\ clock' = clock + 1
    /\ env' = [env EXCEPT !.fsops = @ - 1]
    /\ fs' = Touch([fs EXCEPT ![p] = [kind |-> kind, mtime |-> clock + 1, bytes |-> clock + 1]],
                   p, clock + 1)
    /\ cache' = notify(Tick(cache), p, {p})
    /\ tasks' = MarkChanged(tasks)
    /\ UNCHANGED norm

FsRemove(p) ==
    /\ Idle
    /\ env.fsops > 0
    /\ fs[p].kind # "none"
    /\ clock' = clock + 1
    /\ env' = [env EXCEPT !.fsops = @ - 1]
    /\ fs' = Touch([q \in Paths |-> IF q \in Subtree(p) THEN [fs[q] EXCEPT !.kind = "none"] ELSE fs[q]],
                   p, clock + 1)
    /\ cache' = notify(Tick(cache), p, Subtree(p))
    /\ tasks' = MarkChanged(tasks)
    /\ UNCHANGED norm

FsWrite(p) ==
    /\ Idle
    /\ env.fsops > 0
    /\ fs[p].kind = "file"
    /\ clock' = clock + 1
    /\ env' = [env EXCEPT !.fsops = @ - 1]
    /\ fs' = [fs EXCEPT ![p].mtime = clock + 1, ![p].bytes = clock + 1]
    /\ cache' = notify(Tick(cache), p, {p})
    /\ tasks' = MarkChanged(tasks)
    /\ UNCHANGED norm

\* the bytes of a file change and its modification time is put back
FsRewrite(p) ==
    /\ Idle
    /\ env.fsops > 0
    /\ fs[p].kind = "file"
    /\ clock' = clock + 1
    /\ env' = [env EXCEPT !.fsops = @ - 1]
    /\ fs' = [fs EXCEPT ![p].bytes = clock + 1]
    /\ cache' = notify(Tick(cache), p, {p})
    /\ tasks' = MarkChanged(tasks)
    /\ UNCHANGED norm

\* the microtasks of the tick in progress
Resume ==
    \/ RetIter
    \/ RetCreate
    \/ RetUpdate
    \/ RetPrepare
    \/ RetChange
    \/ Admit

\* the steps of the instance itself
Engine ==
    \/ \E i \in 1..Len(tasks) : Lstat(i)
    \/ \E i \in 1..Len(tasks) : Readdir(i)
    \/ \E i \in 1..Len(tasks) : Immediate(i)
    \/ Resume
    \/ \E p \in Paths : WatcherChange(p)
    \/ RootListener
    \/ EmitDestroy

Next ==
    \/ Engine
    \/ \E i \in 1..Len(tasks) : ReadFile(i)
    \/ \E p \in Paths : WatcherError(p)
    \/ Destroy
    \/ Stop
    \/ Start
    \/ \E p \in Paths, k \in {"file", "dir"} : FsCreate(p, k)
    \/ \E p \in Paths : FsRemove(p)
    \/ \E p \in Paths : FsWrite(p)

Spec == Init /\ [][Next]_vars

\* a directory of the root is removed and made again, and the root is removed
InitRemoval ==
    /\ clock = 0
    /\ norm = NoCall
    /\ tasks = <<prepareCache>>
    /\ fs = FsTree("dir", "dir", "none")
    /\ cache = InitCache(FALSE, {})
    /\ env = Budget(MaxRemovals, 0, 0, 0, 0)

NextRemoval ==
    \/ Engine
    \/ FsCreate(<<"a">>, "dir")
    \/ \E p \in {<<>>, <<"a">>} : FsRemove(p)

SpecRemoval == InitRemoval /\ [][NextRemoval]_vars

\* files are written, with and without a new modification time, and removed,
\* under a cache with and without content capture
InitContent ==
    /\ clock = 0
    /\ norm = NoCall
    /\ tasks = <<prepareCache>>
    /\ fs \in {FsTree("dir", "file", "none"), FsTree("file", "none", "none")}
    /\ \E store \in BOOLEAN : cache = InitCache(store, {})
    /\ env = Budget(MaxWrites, 0, 0, 0, 0)

NextContent ==
    \/ Engine
    \/ \E i \in 1..Len(tasks) : ReadFile(i)
    \/ \E p \in Paths : FsWrite(p)
    \/ \E p \in Paths : FsRewrite(p)
    \/ \E p \in Paths : FsRemove(p)

SpecContent == InitContent /\ [][NextContent]_vars

\* normalizeLocation applied to a string, and again to what it returned
InitNormalize ==
    /\ clock = 0
    /\ tasks = <<>>
    /\ fs = FsTree("none", "none", "none")
    /\ cache = InitCache(FALSE, {})
    /\ env = Budget(0, 0, 0, 0, 0)
    /\ \E str \in Strings(MaxPieces) : norm = [arg |-> str, out |-> str, n |-> 0]

Normalize ==
    /\ norm.n < MaxApply
    /\ norm' = [norm EXCEPT !.out = normalizeLocation(norm.out), !.n = @ + 1]
    /\ UNCHANGED <<fs, clock, cache, tasks, env>>

SpecNormalize == InitNormalize /\ [][Normalize]_vars

\* a symbolic link is made at a free path or renamed over a file: lstat then
\* answers with stats that are neither those of a file nor of a directory
FsSymlink(p) ==
    /\ Idle
    /\ env.fsops > 0
    /\ fs[p].kind \in {"none", "file"}
    /\ p # rootSymbol => fs[Parent(p)].kind = "dir"
    /\ clock' = clock + 1
    /\ env' = [env EXCEPT !.fsops = @ - 1]
    /\ fs' = Touch([fs EXCEPT ![p] = [kind |-> "other", mtime |-> clock + 1, bytes |-> 0]],
                   p, clock + 1)
    /\ cache' = notify(Tick(cache), p, {p})
    /\ tasks' = MarkChanged(tasks)
    /\ UNCHANGED norm

\* files are replaced by symbolic links, and paths removed, under a cache on
\* a file or on a directory holding a file
InitSymlink ==
    /\ clock = 0
    /\ norm = NoCall
    /\ tasks = <<prepareCache>>
    /\ fs \in {FsTree("dir", "file", "none"), FsTree("file", "none", "none")}
    /\ cache = InitCache(FALSE, {})
    /\ env = Budget(MaxLinks, 0, 0, 0, 0)

NextSymlink ==
    \/ Engine
    \/ \E p \in Paths : FsSymlink(p)
    \/ \E p \in Paths : FsRemove(p)

SpecSymlink == InitSymlink /\ [][NextSymlink]_vars

TypeOK ==
    /\ ValidFs(fs)
    /\ \A p \in Paths : cache.handles[p] >= 0

\* the scheduling of Node.js: the microtasks of a tick run to completion, and
\* a setImmediate callback is run
Fairness == WF_vars(Resume) /\ WF_vars(EmitDestroy)

FairSpec == Spec /\ Fairness

\* ------------------------------------------------------------- properties
Stored(c) == {p \in Paths : c.container[p].type # "none"}


PassesInProgress == {i \in 1..Len(tasks) : InPass(tasks[i])}

\* C1: at most one reconciliation pass is in progress at any time, whatever
\* the number and the order of the change triggers, those parked while a pass
\* is in flight included.
C1_OnePassAtATime == Cardinality(PassesInProgress) <= 1

\* a path is mirrored when it and every directory above it is a file or a
\* directory on disk that the filter accepts
Mirrored(p) ==
    \A q \in Paths : IsPrefix(q, p) => (fs[q].kind \in {"file", "dir"} /\ isPathAccepted(cache, q))

\* this step has completed a pass on the root during which no file changed
QuietRootPass ==
    /\ ~cache.destroyed
    /\ \E i \in EmittedAt(cache, "release", rootSymbol) : cache.emitted[i].prev = 0

\* C2: when a pass on the root completes during which the file system did not
\* change, the stored locations are exactly the accepted files and directories
\* reachable from the root, each stored with the kind it has on disk.
C2_MirrorConvergence ==
    QuietRootPass =>
        \A p \in Paths : /\ (p \in Stored(cache)) <=> Mirrored(p)
                         /\ Mirrored(p) => cache.container[p].type = fs[p].kind

\* C3: in every state in which the engine is destroyed the store is empty and
\* the map of watch handles is empty, whatever completes after destroy().
C3_DestroyedIsEmpty ==
    cache.destroyed => (Stored(cache) = {} /\ cache.watchers = {})

\* C4: when destroy() returns on an engine that was watching, every native
\* watch handle that was open is closed and no listener of the root path
\* stays registered with watchFile.
C4_DestroyTearsDown ==
    [][(Destroy /\ ~cache.destroyed /\ cache.watching) =>
          /\ \A p \in Paths : cache'.handles[p] = 0
          /\ ~cache'.fwCur /\ cache'.fwOld = 0]_vars

\* C5: at most one destroy notification is emitted or scheduled in the life
\* of an engine, and destroy() called on a destroyed engine changes no state
\* and schedules nothing.
C5_DestroyIdempotent ==
    /\ [](cache.count["destroy"] + cache.immDestroy <= 1)
    /\ [][(Destroy /\ cache.destroyed) => (cache' = Tick(cache) /\ tasks' = tasks)]_vars

\* destroy() has been called MaxDestroy times and one notification delivered
C5_Witness ==
    /\ cache.destroyed /\ env.nDestroy = 0 /\ MaxDestroy > 1
    /\ cache.count["destroy"] = 1 /\ cache.immDestroy = 0

\* C6: a ready handler finds has(root) true; a construction pass that ends
\* without a root element in the store destroys the engine and emits no ready,
\* and a destroyed engine never emits ready.
C6_ReadyHasRoot ==
    /\ [](\A i \in Emitted(cache, "ready") : cache.emitted[i].has)
    /\ [][(RetPrepare /\ ~has(cache, rootSymbol)) =>
             (cache'.destroyed /\ Emitted(cache', "ready") = {})]_vars
    /\ [][cache.destroyed => cache'.count["ready"] = cache.count["ready"]]_vars

\* ready is being emitted on a stored root
C6_Witness ==
    \E i \in Emitted(cache, "ready") : cache.emitted[i].has /\ rootSymbol \in Stored(cache)

\* the construction pass reports in this step that the root path is missing
RootStatFailure(i) ==
    /\ Immediate(i)
    /\ tasks[i].kind = "prep" /\ Top(tasks[i]).loc = rootSymbol
    /\ fs[rootSymbol].kind = "none"
    /\ ~cache.destroyed

\* C7: a destroyed engine eventually delivers destroy; a root path missing at
\* construction is reported by an error emitted before any destroy; a
\* destroyed engine emits no error, so that destroy() called before any
\* failure was reported leaves the engine without any error notification.
C7_DestroyDelivered ==
    /\ cache.destroyed ~> (cache.count["destroy"] = 1)
    /\ [][\A i \in 1..Len(tasks) : RootStatFailure(i) =>
             /\ Emitted(cache', "error") # {}
             /\ cache.count["destroy"] = 0 /\ cache.immDestroy = 0
             /\ cache'.destroyed => cache'.immDestroy = 1]_vars
    /\ [][cache.destroyed => cache'.count["error"] = cache.count["error"]]_vars

\* the engine never became ready: one error, then one destroy
C7_Witness ==
    /\ cache.count["ready"] = 0 /\ cache.count["error"] = 1
    /\ cache.count["destroy"] = 1 /\ env.nDestroy = MaxDestroy

\* a pass on a ready engine reports in this step that the root path is missing
RootLoss(i) ==
    /\ Immediate(i)
    /\ tasks[i].kind = "change" /\ Top(tasks[i]).loc = rootSymbol
    /\ fs[rootSymbol].kind = "none"
    /\ cache.ready /\ ~cache.destroyed

\* C8: when a pass on a ready engine finds the root path missing, an error is
\* emitted, every stored element is unlinked with the unlink of the root last,
\* the engine is destroyed with its destroy notification scheduled, and list()
\* is empty.
C8_RootLoss ==
    [][\A i \in 1..Len(tasks) : RootLoss(i) =>
          /\ Emitted(cache', "error") # {}
          /\ \A p \in Stored(cache) : EmittedAt(cache', "unlink", p) # {}
          /\ \A j \in Emitted(cache', "unlink"), k \in EmittedAt(cache', "unlink", rootSymbol) : j <= k
          /\ cache'.destroyed /\ cache'.immDestroy = 1
          /\ list(cache') = {}]_vars

\* C9: a step that unlinks a stored directory emits exactly one unlink for the
\* directory and for every stored descendant, that of a descendant before that
\* of its ancestors, and leaves no location of the subtree in the store.
C9_UnlinkSubtree ==
    [][\A l \in Paths :
          (cache.container[l].type = "dir" /\ EmittedAt(cache', "unlink", l) # {}) =>
              \A p \in Subtree(l) \cap Stored(cache) :
                  /\ Cardinality(EmittedAt(cache', "unlink", p)) = 1
                  /\ \A j \in EmittedAt(cache', "unlink", p), k \in EmittedAt(cache', "unlink", l) : j <= k
                  /\ p \notin Stored(cache')]_vars

\* C10: when an unlink for a location is delivered, get of the location is
\* null and has is false, and the event carries the element that the store
\* held at the location just before.
C10_UnlinkDetached ==
    \A i \in Emitted(cache, "unlink") :
        LET e == cache.emitted[i] IN ~e.got /\ ~e.has /\ e.el # 0 /\ e.el = e.prev

\* a directory and its child are being unlinked
C10_Witness ==
    Cardinality(Emitted(cache, "unlink")) >= 2

\* a pass finds in this step the modification time it has stored
SameTimeVisit(i) ==
    /\ Lstat(i)
    /\ ~cache.destroyed
    /\ fs[Top(tasks[i]).loc].kind \in {"file", "dir"}
    /\ Top(tasks[i]).loc \in Stored(cache)
    /\ cache.container[Top(tasks[i]).loc].mtime = fs[Top(tasks[i]).loc].mtime

\* C11: a visit that observes the stored modification time emits no change,
\* leaves the stored stats and content as they were, does not set the changed
\* flag, and starts no update of the element.
C11_SameTimeNoChange ==
    [][\A i \in 1..Len(tasks) : SameTimeVisit(i) =>
          /\ cache'.container = cache.container
          /\ cache'.changed = cache.changed
          /\ Emitted(cache', "change") = {}
          /\ \A k \in 1..Len(tasks'[i].stack) :
                 ~(tasks'[i].stack[k].pc = "update" /\ tasks'[i].stack[k].loc = Top(tasks[i]).loc)]_vars

\* a pass on the root has ended that left a file with the bytes it had stored,
\* which are no longer those on disk, because the modification time is the same
C11_Witness ==
    /\ cache.store /\ QuietRootPass
    /\ Emitted(cache, "update") = {}
    /\ \E p \in Stored(cache) :
          /\ fs[p].kind = "file" /\ cache.container[p].type = "file"
          /\ cache.container[p].mtime = fs[p].mtime
          /\ cache.container[p].content # BufContent(fs[p].bytes)

\* C12: the visit of a stored element whose modification time differs ends
\* with exactly one change emitted for the element; the element, when the
\* store still holds it, then has the stats observed by the visit and, with
\* content capture, a file has the bytes the visit read, which are those on
\* disk when no file changed during the pass.
C12_ChangedTimeUpdates ==
    [][RetUpdate =>
          LET t == tasks[Current(tasks)]
              fr == Top(t)
              el == cache'.container[fr.loc]
          IN  /\ Cardinality(EmittedAt(cache', "change", fr.loc)) = 1
              /\ (fr.loc \in Stored(cache') /\ el.gen = fr.gen) =>
                    /\ el.mtime = fr.mt
                    /\ (cache.store /\ el.type = "file") =>
                          /\ el.content = t.ret /\ el.content.k = "buf"
                          /\ ~t.fsch => el.content = BufContent(fs[fr.loc].bytes)]_vars

\* a written file has just been updated to the bytes written
C12_Witness ==
    /\ cache.store
    /\ \E p \in Stored(cache) :
          /\ EmittedAt(cache, "change", p) # {}
          /\ cache.container[p].type = "file" /\ cache.container[p].mtime > 0
          /\ cache.container[p].content = BufContent(fs[p].bytes) /\ fs[p].bytes > 0

\* the locations at and below a location that the filter rejects
Rejected(c) == {p \in Paths : \E q \in c.filter : IsPrefix(q, p)}

\* a pass discovers in this step a file or directory that the filter rejects
RejectedVisit(i) ==
    /\ Lstat(i)
    /\ ~cache.destroyed
    /\ fs[Top(tasks[i]).loc].kind \in {"file", "dir"}
    /\ Top(tasks[i]).loc \notin Stored(cache)
    /\ ~isPathAccepted(cache, Top(tasks[i]).loc)

\* C13: a location rejected by the filter and the locations below it are never
\* stored, watched or visited further; discovering a rejected location stores
\* and emits nothing and returns at once; and with a root directory whose only
\* child is rejected, list() at ready holds exactly the root.
C13_FilterRejects ==
    /\ [](\A p \in Rejected(cache) :
             /\ p \notin Stored(cache) /\ cache.handles[p] = 0
             /\ \A i \in 1..Len(tasks) : \A k \in 1..Len(tasks[i].stack) :
                    tasks[i].stack[k].loc = p => tasks[i].stack[k].pc \in {"lstat", "imm", "prep"}
             /\ \A i \in 1..Len(cache.emitted) :
                    cache.emitted[i].loc = p => cache.emitted[i].ev \in {"error", "destroy"})
    /\ [][\A i \in 1..Len(tasks) : RejectedVisit(i) =>
             /\ cache' = Tick(cache)
             /\ tasks'[i].st = "ret" /\ tasks'[i].stack = Tail(tasks[i].stack)]_vars
    /\ []((Emitted(cache, "ready") # {} /\ cache.filter = {<<"a">>}) => list(cache) = {rootSymbol})

\* ready on a root directory whose only child, a directory with a file, is
\* rejected
C13_Witness ==
    /\ Emitted(cache, "ready") # {} /\ cache.filter = {<<"a">>}
    /\ fs[<<"a">>].kind = "dir" /\ fs[<<"a", "c">>].kind = "file"
    /\ list(cache) = {rootSymbol}

\* C14: once the engine is destroyed, get of every location is null, has of
\* every location is false and list() is empty, in every later state.
C14_DestroyedReadsEmpty ==
    cache.destroyed =>
        /\ \A p \in Paths : get(cache, p) = NoElem /\ ~has(cache, p)
        /\ list(cache) = {}

\* C15: what normalizeLocation returns it returns unchanged when applied
\* again, and the empty string, '/' and '<root>' are normalized to '<root>'.
C15_NormalizeIdempotent ==
    /\ norm.n >= 1 => normalizeLocation(norm.out) = norm.out
    /\ (norm.n >= 1 /\ norm.arg \in {<<>>, solidus, rootString}) => norm.out = rootString

\* a string that does not start with '<root>' has been normalized twice
C15_Witness ==
    /\ norm.n = 2 /\ ~startsWith(norm.arg, rootString) /\ Len(norm.arg) > 1
    /\ norm.out = rootString \o solidus \o norm.arg

\* C16: ready is emitted at most once in the life of an engine, whatever
\* calls of start(), stop() and destroy() are made.
C16_ReadyOnce == cache.count["ready"] <= 1

\* C17: a pass started by a trigger, on an engine that is not destroyed, ends
\* with exactly one update, emitted before release, when the pass has created,
\* changed or removed an element, and with no update when it has not.
C17_UpdatePerPass ==
    [][(RetChange /\ ~cache.destroyed) =>
          LET t == tasks[Current(tasks)] IN
          /\ t.did => /\ Cardinality(Emitted(cache', "update")) = 1
                      /\ \A j \in Emitted(cache', "update"), k \in Emitted(cache', "release") : j < k
          /\ ~t.did => Emitted(cache', "update") = {}]_vars

\* C18: with content capture disabled every file element of the store has
\* null as content and no task reads or has read a file.
C18_NoStoreNoRead ==
    ~cache.store =>
        /\ \A p \in Stored(cache) : cache.container[p].type = "file" => cache.container[p].content = NullContent
        /\ \A i \in 1..Len(tasks) :
              /\ tasks[i].ret.k # "buf"
              /\ \A k \in 1..Len(tasks[i].stack) : tasks[i].stack[k].pc # "readfile"

\* without content capture a written file has just been updated
C18_Witness ==
    /\ ~cache.store
    /\ \E p \in Stored(cache) :
          /\ EmittedAt(cache, "change", p) # {}
          /\ cache.container[p].type = "file" /\ cache.container[p].content = NullContent
          /\ fs[p].kind = "file" /\ fs[p].bytes > 0 /\ cache.container[p].mtime = fs[p].mtime

\* C19: stop() removes and alters no element, and while the engine is
\* stopped, until start() or destroy(), no element is added to, changed in or
\* removed from the store.
C19_StoppedStoreFrozen ==
    [][/\ Stop => cache'.container = cache.container
       /\ (~cache.watching /\ ~cache.destroyed /\ ~cache'.destroyed) =>
              cache'.container = cache.container]_vars

\* C20: whenever the engine is watching, ready and no pass is in progress,
\* the root element and every directory element of the store have their entry
\* in the map of watch handles, after the construction pass and after a
\* stop() followed by a start() whose pass on the root has completed.
C20_WatchedWhenQuiet ==
    (cache.watching /\ cache.ready /\ ~cache.destroyed /\ PassesInProgress = {}) =>
        \A p \in Stored(cache) :
            (p = rootSymbol \/ cache.container[p].type = "dir") => p \in cache.watchers

\* the notifications of element and pass activity
ActivityEvents == {"file", "dir", "change", "unlink", "update", "watch", "ready"}

\* C21: a step taken on a destroyed engine emits no file, directory, change,
\* unlink, update, watch or ready notification; what a destroyed engine emits
\* is its one destroy notification.
C21_DestroyedIsSilent ==
    [][cache.destroyed =>
          /\ \A i \in 1..Len(cache'.emitted) : cache'.emitted[i].ev \notin ActivityEvents
          /\ cache'.count["destroy"] <= 1]_vars

\* the step has put a new element in the store at location p
Created(p) ==
    /\ cache'.container[p].type # "none"
    /\ cache'.container[p].gen # cache.container[p].gen

\* the step has emitted, with the new element of p in the store, the
\* notification of its kind that carries it
Announced(p) ==
    \E i \in EmittedAt(cache', cache'.container[p].type, p) :
        cache'.emitted[i].got /\ cache'.emitted[i].el = cache'.container[p].gen

C23_FifoAdmission ==
    [][(Admit /\ ~cache.destroyed) =>
          \A j \in 1..(Current(tasks) - 1) : tasks[j].kind # "change"]_vars

\* C24: the visit of a stored element whose path has changed in kind never
\* ends with the old element updated in place: when the update of an element
\* completes in a pass during which no file changed, the element the store
\* holds at the location has the kind its path has on disk.
C24_KindChangeRecreates ==
    [][RetUpdate =>
          LET t == tasks[Current(tasks)]
              location == Top(t).loc
          IN  (~t.fsch /\ location \in Stored(cache') /\ fs[location].kind \in {"file", "dir"}) =>
                  cache'.container[location].type = fs[location].kind]_vars

\* C25: when a pass ends during which no file changed, no location at or
\* below the location of the pass whose path is neither a file nor a
\* directory is in the store: the element it had is removed, none is created.
C25_SpecialPathRemoved ==
    [][((RetChange \/ RetPrepare) /\ ~cache'.destroyed) =>
          LET t == tasks[Current(tasks)] IN
          ~t.fsch => \A p \in Subtree(t.loc) : fs[p].kind = "other" => p \notin Stored(cache')]_vars

\* the content of the element was loaded: a list for a directory, the bytes
\* for a file under content capture
Loaded(c, p) ==
    /\ c.container[p].type = "dir" => isArray(c.container[p].content)
    /\ (c.container[p].type = "file" /\ c.store) => c.container[p].content.k = "buf"

\* C26: a failure to list a directory or to read a file emits an error on an
\* engine that is not destroyed, and when a pass ends on such an engine the
\* store holds no element whose content failed to load: every directory
\* element has a list as content and, under content capture, every file
\* element its bytes.
C26_LoadFailureRemoves ==
    /\ [][\A i \in 1..Len(tasks) :
             (Immediate(i) /\ Top(tasks[i]).flav = "null" /\ ~cache.destroyed) =>
                 Emitted(cache', "error") # {}]_vars
    /\ [][((RetChange \/ RetPrepare) /\ ~cache'.destroyed) =>
             \A p \in Stored(cache') : Loaded(cache', p)]_vars

\* the catch block of updateLocation reports in this step, on an engine that
\* is not destroyed, the failure met at the location of a pass
StatFailure(i) ==
    /\ Immediate(i)
    /\ ~cache.destroyed
    /\ tasks[i].kind \in {"prep", "change"}
    /\ Top(tasks[i]).flav = "void"

C28_NonRootErrorNotFatal ==
    [][\A i \in 1..Len(tasks) :
          (Immediate(i) /\ Top(tasks[i]).loc # rootSymbol /\ ~cache.destroyed) =>
              /\ Emitted(cache', "error") # {}
              /\ ~cache'.destroyed /\ cache'.immDestroy = cache.immDestroy
              /\ rootSymbol \in Stored(cache) =>
                     cache'.container[rootSymbol] = cache.container[rootSymbol]
              /\ IF Len(tasks[i].stack) = 1
                 THEN tasks' = Remove(tasks, i)
                 ELSE tasks'[i].st = "ret" /\ tasks'[i].stack = Tail(tasks[i].stack)]_vars

\* an error is being reported at a directory of the root, which stays stored
C28_Witness ==
    /\ \E i \in Emitted(cache, "error") : cache.emitted[i].loc = <<"a">>
    /\ rootSymbol \in Stored(cache) /\ ~cache.destroyed /\ cache.immDestroy = 0
    /\ fs[rootSymbol].kind = "dir"

\* C29: every key of the map of watchers is the root location or the
\* location of a directory element of the store, and a step that removes a
\* directory element from the store leaves no watcher open on it and no key
\* for it in the map.
C29_WatchersOfDirectories ==
    /\ [](\A p \in cache.watchers : p = rootSymbol \/ cache.container[p].type = "dir")
    /\ [][\A p \in Paths :
             (cache.container[p].type = "dir" /\ cache'.container[p].type = "none") =>
                 (p \notin cache'.watchers /\ cache'.handles[p] = 0)]_vars

\* the parent of the stored location holds a directory element that lists it
Attached(c, p) ==
    LET parent == c.container[Parent(p)] IN
    /\ parent.type = "dir" /\ isArray(parent.content)
    /\ \E k \in 1..Len(parent.content.list) : parent.content.list[k] = p[Len(p)]

\* C30: when no pass is in progress on an engine that is not destroyed,
\* every stored element but the root has in the store a parent directory
\* whose list of names holds its name.
C30_NoOrphan ==
    (PassesInProgress = {} /\ Idle /\ ~cache.destroyed) =>
        \A p \in Stored(cache) \ {rootSymbol} : Attached(cache, p)

\* the notifications whose handlers read the store
StoreEvents == {"file", "dir", "change", "unlink", "update", "ready"}

\* C31: whenever a file, directory, change, unlink, update or ready handler
\* runs, every stored element but the root has a stored parent directory
\* whose list names it, and every key of the map of watchers is the root or
\* a stored directory.
C31_HandlersSeeConsistency ==
    \A i \in 1..Len(cache.emitted) :
        cache.emitted[i].ev \in StoreEvents => cache.emitted[i].ok

\* this step stores or updates a directory element with the listing loaded
PublishesListing ==
    /\ (RetCreate \/ RetUpdate)
    /\ Top(tasks[Current(tasks)]).typ = "dir"
    /\ isArray(tasks[Current(tasks)].ret)

\* this step hands the listing of a directory to the createElement or
\* updateElement that awaits it
ListingLoaded(i) ==
    /\ Readdir(i) \/ (RetIter /\ i = Current(tasks))
    /\ tasks'[i].st = "ret" /\ isArray(tasks'[i].ret)

\* C32: the listing of a directory is handed to the createElement or
\* updateElement that awaits it only when the visit of its last child has
\* returned, so that every child is reconciled before the listing is
\* published; and in the step that publishes it the directory or change
\* notification of the directory is the only one of its kind and comes after
\* the unlink of every child that has disappeared.
C32_ChildrenBeforeDirectory ==
    [][/\ \A i \in 1..Len(tasks) :
              ListingLoaded(i) =>
                  IF Top(tasks[i]).pc = "iter"
                  THEN tasks[i].st = "ret" /\ Top(tasks[i]).idx >= Len(Top(tasks[i]).list)
                  ELSE tasks'[i].ret.list = <<>>
       /\ PublishesListing =>
              LET t == tasks[Current(tasks)]
                  fr == Top(t)
              IN  /\ \A k \in 1..Len(t.stack) : ~IsPrefix(fr.loc, t.stack[k].loc) \/ t.stack[k].loc = fr.loc
                  /\ \A j \in 1..Len(cache'.emitted) :
                        cache'.emitted[j].ev \in {"dir", "change"} =>
                            /\ cache'.emitted[j].loc = fr.loc
                            /\ \A u \in Emitted(cache', "unlink") : u < j]_vars

\* a changed directory is being updated: the file that has disappeared is
\* unlinked, the change of the directory follows
C32_Witness ==
    /\ EmittedAt(cache, "change", rootSymbol) # {}
    /\ EmittedAt(cache, "unlink", <<"a">>) # {}
    /\ ~cache.destroyed /\ rootSymbol \in Stored(cache)
    /\ isArray(cache.container[rootSymbol].content)

\* this step is taken by task i
StepOf(i) ==
    \/ Lstat(i) \/ Readdir(i) \/ ReadFile(i) \/ Immediate(i)
    \/ /\ Running(tasks) /\ i = Current(tasks)
       /\ RetIter \/ RetCreate \/ RetUpdate \/ RetPrepare \/ RetChange

\* C33: a step that changes the store or the map of watchers is a step of a
\* reconciliation pass that is running (the pass of the construction or a
\* pass let in by whenReleased), or destroy() or stop().
C33_WritesOnlyInPass ==
    [][(cache'.container # cache.container \/ cache'.watchers # cache.watchers) =>
          \/ Destroy \/ Stop
          \/ \E i \in 1..Len(tasks) :
                 /\ tasks[i].kind \in {"prep", "change"}
                 /\ tasks[i].st \in {"io", "ret"}
                 /\ StepOf(i)]_vars


\* the deferred callback of the error of a watcher runs for task i and takes
\* out of the store nothing but the location of the watcher and what is
\* beneath it, and adds no watcher
ErrorCallback(i) ==
    /\ tasks[i].kind = "werr"
    /\ Immediate(i)
    /\ \A p \in Paths :
           cache'.container[p] # cache.container[p] =>
               cache'.container[p] = NoElem /\ IsPrefix(tasks[i].loc, p)
    /\ cache'.watchers \subseteq cache.watchers

\* C33 (amended): a step that changes the store or the map of watchers is a
\* step of a running reconciliation pass, destroy() or stop(), or the
\* deferred callback of the error of a watcher, which only removes the
\* location of that watcher with what is beneath it.
C33_WritesInPassOrErrorCallback ==
    [][(cache'.container # cache.container \/ cache'.watchers # cache.watchers) =>
          \/ Destroy \/ Stop
          \/ \E i \in 1..Len(tasks) :
                 \/ /\ tasks[i].kind \in {"prep", "change"}
                    /\ tasks[i].st \in {"io", "ret"}
                    /\ StepOf(i)
                 \/ ErrorCallback(i)]_vars

\* the error callback of a watcher has removed an element while a pass is
\* in flight
C33_Witness ==
    /\ Emitted(cache, "error") # {}
    /\ Emitted(cache, "unlink") # {}
    /\ \A i \in 1..Len(tasks) : tasks[i].st # "ret"
    /\ \E i \in 1..Len(tasks) : tasks[i].kind = "change" /\ tasks[i].st = "io"


\* a watched path is removed and its watcher reports the error: the root is
\* a file or a directory that holds a directory
MaxGone == 2

InitHandleError ==
    /\ clock = 0
    /\ norm = NoCall
    /\ tasks = <<prepareCache>>
    /\ fs \in {FsTree("file", "none", "none"), FsTree("dir", "dir", "none")}
    /\ cache = InitCache(FALSE, {})
    /\ env = Budget(MaxGone, 1, 0, 0, 0)

NextHandleError ==
    \/ Engine
    \/ \E p \in Paths : WatcherError(p)
    \/ \E p \in Paths : FsRemove(p)

SpecHandleError == InitHandleError /\ [][NextHandleError]_vars

\* C34: when the deferred callback of the error of the watcher of a location
\* runs on a cache that is not destroyed, the watcher of that location is
\* closed and out of the map of watchers, an error notification is emitted,
\* and neither the location nor anything beneath it is stored any more.
C34_WatcherErrorRemoves ==
    [][\A i \in 1..Len(tasks) :
          (tasks[i].kind = "werr" /\ Immediate(i) /\ ~cache.destroyed) =>
              /\ tasks[i].loc \notin cache'.watchers
              /\ cache'.handles[tasks[i].loc] = 0
              /\ EmittedAt(cache', "error", tasks[i].loc) # {}
              /\ \A p \in Subtree(tasks[i].loc) : cache'.container[p].type = "none"]_vars


\* C35: a pass on the root re-stats every element stored beneath the root,
\* through the directories with an unchanged modification time as well, so
\* that a removal or a change of any stored descendant is detected: when such
\* a pass completes during which the file system did not change, every
\* stored element is a path on disk with the modification time it has there.
C35_RootPassDetects ==
    QuietRootPass =>
        \A p \in Stored(cache) :
            /\ fs[p].kind # "none"
            /\ cache.container[p].mtime = fs[p].mtime


\* a call of the file system, or a callback given to setImmediate, completes
Completion ==
    \E i \in 1..Len(tasks) : Lstat(i) \/ Readdir(i) \/ ReadFile(i) \/ Immediate(i)

\* ENABLED <<Completion>>_vars: no code of the instance is running and some
\* task waits for the file system or for its setImmediate callback
CompletionDue ==
    /\ Idle
    /\ \E i \in 1..Len(tasks) : tasks[i].st = "io"

\* every pending call of the file system is answered and every setImmediate
\* callback runs: weak fairness of Completion, its ENABLED written out
FairCompletion == <>[]CompletionDue => []<><<Completion>>_vars

LiveSpec == Spec /\ Fairness /\ FairCompletion

\* C36: every constructed engine eventually emits ready, or is destroyed and
\* emits destroy.
C36_ConstructionTerminates ==
    <>(\/ cache.count["ready"] >= 1
       \/ cache.destroyed /\ cache.count["destroy"] >= 1)

\* the construction of a cache whose filter rejects the root has ended in
\* destroy, with no error and no call of destroy() by the caller
C36_Witness ==
    /\ cache.count["ready"] = 0 /\ cache.count["error"] = 0
    /\ cache.destroyed /\ cache.count["destroy"] = 1
    /\ env.nDestroy = MaxDestroy /\ env.werr = 0
    /\ tasks = <<>>


\* the triggers of watchers that have been neither dropped nor completed
Triggers == {i \in 1..Len(tasks) : tasks[i].kind = "change"}

\* the triggers that wait for a release
Parked == {i \in Triggers : tasks[i].st = "parked"}

\* C37: unless the engine is destroyed, the triggers that wait for a release
\* are eventually admitted and the passes of all triggers eventually
\* complete; a trigger leaves only when its pass completes, which fires
\* release, or when it is admitted on a destroyed engine; the triggers that
\* wait are admitted by a release, all of them.
C37_NoTriggerLost ==
    /\ (Parked # {}) ~> (Parked = {} \/ cache.destroyed)
    /\ (Triggers # {}) ~> (Triggers = {} \/ cache.destroyed)
    /\ [][Cardinality(Triggers') < Cardinality(Triggers) =>
             \/ RetChange /\ Emitted(cache', "release") # {}
             \/ Admit /\ cache.destroyed]_vars
    /\ [][Cardinality(Parked') < Cardinality(Parked) =>
             /\ Emitted(cache', "release") # {}
             /\ Parked' = {}
             /\ Cardinality({i \in Triggers' : tasks'[i].st = "admit"}) >= Cardinality(Parked)]_vars

\* a release has let in a trigger that arrived while a pass was in flight
C37_Witness ==
    /\ ~cache.destroyed
    /\ Emitted(cache, "release") # {}
    /\ \E i \in Triggers : tasks[i].st = "admit"


\* C38: the ready flag and the destroyed flag are never both true; the ready
\* flag is cleared only by a step that destroys the engine; the destroyed
\* flag is never cleared; start() on a destroyed engine starts no pass and
\* adds no watcher.
C38_LifecycleForward ==
    /\ [](~(cache.ready /\ cache.destroyed))
    /\ [][(cache.ready /\ ~cache'.ready) => (~cache.destroyed /\ cache'.destroyed)]_vars
    /\ [][cache.destroyed => cache'.destroyed]_vars
    /\ [][(Start /\ cache.destroyed) =>
             /\ tasks' = tasks
             /\ cache'.watchers = cache.watchers /\ cache'.handles = cache.handles
             /\ ~cache'.ready /\ cache'.watching = cache.watching]_vars

\* stop(), destroy() and then start() have been called: start() has done
\* nothing
C38_Witness ==
    /\ cache.destroyed /\ ~cache.watching
    /\ env.nStart = 0 /\ env.nStop = 0 /\ env.nDestroy < MaxDestroy
    /\ cache.count["ready"] = 1


\* C39: whenever the engine is not watching, the map of watchers is empty;
\* stop() on a watching engine closes every watcher of the map and empties
\* the map; and no step taken while the engine is stopped adds or opens a
\* watcher.
C39_StoppedHasNoWatchers ==
    /\ [](~cache.watching => cache.watchers = {})
    /\ [][(Stop /\ ~cache.destroyed /\ cache.watching) =>
             /\ ~cache'.watching
             /\ cache'.watchers = {}
             /\ \A p \in Paths :
                    cache'.handles[p] = cache.handles[p] - (IF p \in cache.watchers THEN 1 ELSE 0)]_vars
    /\ [][(~cache.watching /\ ~cache'.watching) =>
             /\ cache'.watchers = cache.watchers
             /\ \A p \in Paths : cache'.handles[p] <= cache.handles[p]]_vars

\* the construction pass has stored the directory a after stop(): no watcher
\* was added for it
C39_Witness ==
    /\ ~cache.watching /\ ~cache.destroyed
    /\ cache.container[<<"a">>].type = "dir"
    /\ cache.watchers = {}
    /\ \E i \in 1..Len(tasks) : tasks[i].kind = "prep" /\ tasks[i].st = "ret"


\* C40: every change notification carries an element that is in the store
\* when it is emitted: the location holds an element, and it is the element
\* that was updated, not one unlinked earlier in the pass.
C40_ChangeOfStoredElement ==
    \A i \in Emitted(cache, "change") :
        /\ cache.emitted[i].got
        /\ cache.emitted[i].el = cache.emitted[i].prev

====
